---- MODULE Spec2Model ----
(***************************************************************************)
(* A model of autobuild's SCM version resolution (autobuild/scm/git.py)    *)
(* and of the command line entry point (autobuild/autobuild_main.py).      *)
(*                                                                         *)
(* Text is a sequence of one-character strings, so that the string         *)
(* operations of the code (endswith, slicing, rsplit, lstrip, int, str)    *)
(* are computed character by character.                                    *)
(***************************************************************************)
EXTENDS Integers, Sequences, FiniteSets, TLC

\* ------------------------------------------------------------------ text

DigitChars == <<"0", "1", "2", "3", "4", "5", "6", "7", "8", "9">>

IsDigit(c) == \E i \in 1..10 : DigitChars[i] = c

DigitVal(c) == (CHOOSE i \in 1..10 : DigitChars[i] = c) - 1

\* str(n) of a non-negative integer
RECURSIVE IntToStr(_)
IntToStr(n) ==
    IF n < 10 THEN <<DigitChars[n + 1]>>
    ELSE IntToStr(n \div 10) \o <<DigitChars[(n % 10) + 1]>>

\* int(s) succeeds on a non-empty run of decimal digits (no other character
\* of the alphabet used here is accepted by int)
IsNumeric(s) == Len(s) > 0 /\ \A i \in 1..Len(s) : IsDigit(s[i])

RECURSIVE StrToInt(_)
StrToInt(s) ==
    IF Len(s) = 0 THEN 0
    ELSE 10 * StrToInt(SubSeq(s, 1, Len(s) - 1)) + DigitVal(s[Len(s)])

\* str.endswith
EndsWith(s, suffix) ==
    /\ Len(s) >= Len(suffix)
    /\ SubSeq(s, Len(s) - Len(suffix) + 1, Len(s)) = suffix

\* the rightmost position of character c in s, 0 when there is none
RFind(s, c) ==
    IF \E i \in 1..Len(s) : s[i] = c
    THEN CHOOSE i \in 1..Len(s) : s[i] = c /\ \A j \in (i + 1)..Len(s) : s[j] # c
    ELSE 0

\* str.rsplit(sep, maxsplit): at most maxsplit splits, taken from the right
RECURSIVE RSplit(_, _, _)
RSplit(s, sep, maxsplit) ==
    LET i == RFind(s, sep) IN
    IF maxsplit = 0 \/ i = 0 THEN <<s>>
    ELSE Append(RSplit(SubSeq(s, 1, i - 1), sep, maxsplit - 1),
                SubSeq(s, i + 1, Len(s)))

\* seq[-n:]
LastN(seq, n) ==
    IF Len(seq) <= n THEN seq ELSE SubSeq(seq, Len(seq) - n + 1, Len(seq))

\* str.lstrip(c): every leading c is removed
RECURSIVE LStrip(_, _)
LStrip(s, c) ==
    IF Len(s) > 0 /\ s[1] = c THEN LStrip(Tail(s), c) ELSE s

\* str.split(sep) from the left, every occurrence
RECURSIVE Split(_, _)
Split(s, sep) ==
    IF \E i \in 1..Len(s) : s[i] = sep
    THEN LET i == CHOOSE k \in 1..Len(s) : s[k] = sep /\ \A j \in 1..(k - 1) : s[j] # sep
         IN  <<SubSeq(s, 1, i - 1)>> \o Split(SubSeq(s, i + 1, Len(s)), sep)
    ELSE <<s>>

\* "sep".join(parts)
RECURSIVE Join(_, _)
Join(parts, sep) ==
    IF Len(parts) = 0 THEN <<>>
    ELSE IF Len(parts) = 1 THEN parts[1]
    ELSE parts[1] \o <<sep>> \o Join(Tail(parts), sep)

\* ------------------------------------------------- Semver (autobuild.scm.base)

\* a numeric identifier of the semantic-version grammar: digits, no leading zero
IsNumericId(s) == IsNumeric(s) /\ (Len(s) = 1 \/ s[1] # "0")

NoVersion ==
    [semver |-> FALSE, major |-> 0, minor |-> 0, patch |-> 0,
     prerelease |-> <<>>, raw |-> <<>>]

\* the fallback value of GitMeta.version: a plain string
RawVersion(s) == [NoVersion EXCEPT !.raw = s]

\* Semver.parse succeeds exactly on major.minor.patch[-prerelease]
IsSemver(tag) ==
    LET parts == Split(tag, "-")
        nums  == Split(parts[1], ".")
    IN  /\ Len(nums) = 3
        /\ \A i \in 1..3 : IsNumericId(nums[i])
        /\ (Len(parts) > 1 => Len(Join(Tail(parts), "-")) > 0)

SemverParse(tag) ==
    LET parts == Split(tag, "-")
        nums  == Split(parts[1], ".")
    IN  [semver |-> TRUE,
         major |-> StrToInt(nums[1]), minor |-> StrToInt(nums[2]),
         patch |-> StrToInt(nums[3]),
         prerelease |-> Join(Tail(parts), "-"), raw |-> <<>>]

\* Semver.next: the patch is incremented, the pre-release label cleared
SemverNext(v) == [v EXCEPT !.patch = v.patch + 1, !.prerelease = <<>>]

\* str() of GitMeta.version: major.minor.patch[-prerelease], or the raw string
VersionStr(v) ==
    IF v.semver
    THEN IntToStr(v.major) \o <<".">> \o IntToStr(v.minor) \o <<".">>
         \o IntToStr(v.patch)
         \o (IF Len(v.prerelease) > 0 THEN <<"-">> \o v.prerelease ELSE <<>>)
    ELSE v.raw

\* ------------------------------------------------------ _parse_describe

DirtySuffix == <<"-", "d", "i", "r", "t", "y">>

NoMeta ==
    [error |-> FALSE, dirty |-> FALSE, distance |-> 0, commit |-> <<>>,
     version |-> NoVersion]

ParseError == [NoMeta EXCEPT !.error = TRUE]

\* describe[:-6] when the text ends with "-dirty"
StripDirty(text) ==
    IF EndsWith(text, DirtySuffix)
    THEN SubSeq(text, 1, Len(text) - Len(DirtySuffix))
    ELSE text

\* describe.rsplit("-", 3 if dirty else 2)[-3:]
DescribeParts(text) ==
    LET dirty == EndsWith(text, DirtySuffix)
    IN  LastN(RSplit(StripDirty(text), "-", IF dirty THEN 3 ELSE 2), 3)

\* a fallback that keeps the raw tag as it is
TagVersion_KeepV(raw_tag) ==
    IF IsSemver(raw_tag) THEN SemverParse(raw_tag) ELSE RawVersion(raw_tag)

\* Semver.parse(raw_tag) or raw_tag.lstrip("v")
TagVersion(raw_tag) ==
    IF IsSemver(raw_tag) THEN SemverParse(raw_tag)
    ELSE RawVersion(LStrip(raw_tag, "v"))

\* commit[1:]
CommitId(commit) == IF Len(commit) = 0 THEN <<>> ELSE Tail(commit)

\* _parse_describe: the unpacking into three names and int() raise ValueError
parse_describe(text) ==
    LET parts == DescribeParts(text)
    IN  IF Len(parts) # 3 THEN ParseError
        ELSE IF ~IsNumeric(parts[2]) THEN ParseError
        ELSE [error |-> FALSE,
              dirty |-> EndsWith(text, DirtySuffix),
              distance |-> StrToInt(parts[2]),
              commit |-> CommitId(parts[3]),
              version |-> TagVersion(parts[1])]

\* --------------------------------------------------------- Git.version

\* meta.version.next if isinstance(meta.version, Semver) else meta.version
NextVersion(meta) ==
    IF meta.version.semver THEN SemverNext(meta.version) ELSE meta.version

DevSuffix(meta) ==
    <<"-", "d", "e", "v">> \o IntToStr(meta.distance) \o <<".", "g">> \o meta.commit

\* the distance is looked at before the dirty flag
FormatVersion_DistanceFirst(meta, date) ==
    IF meta.distance = 0
    THEN VersionStr(meta.version)
    ELSE IF meta.dirty
    THEN VersionStr(NextVersion(meta)) \o DevSuffix(meta) \o <<".", "d">> \o date
    ELSE VersionStr(NextVersion(meta)) \o DevSuffix(meta)

\* lines 120-128 of Git.version: the three shapes
FormatVersion(meta, date) ==
    IF meta.dirty
    THEN VersionStr(NextVersion(meta)) \o DevSuffix(meta) \o <<".", "d">> \o date
    ELSE IF meta.distance # 0
    THEN VersionStr(NextVersion(meta)) \o DevSuffix(meta)
    ELSE VersionStr(meta.version)


\* ------------------------------------------------------------- bounds

\* distances 0..MaxDistance occur in the descriptors (two digits included)
MaxDistance == 11

\* directories 0..MaxDir: directory n lies n levels below directory 0
MaxDir == 22

\* a parent chain that loops: the parent of directory 0 is directory LoopTo
LoopTo == 2

\* a Git handle is built on one of the directories 0..MaxRoot
MaxRoot == 2

\* accesses to the properties of one Git handle
MaxCalls == 3

\* command lines of at most MaxArgs arguments
MaxArgs == 3

\* ------------------------------------------------------------- inputs

Tags ==
    { <<"1", ".", "2", ".", "3">>,
      <<"1", ".", "2", ".", "9">>,
      <<"1", ".", "2", ".", "3", "-", "r", "c", "1">>,
      <<"v", "1", ".", "2", ".", "3">>,
      <<"r", "e", "l", "-", "1">>,
      <<"v", "2">>,
      <<"2", "0", "2", "4">> }

Commits == { <<"a", "b", "c">>, <<"1", "f">> }

Dates == { <<"2", "0", "2", "5", "0", "1", "0", "1">> }

\* distance fields int() rejects
BadDistances == { <<>>, <<"x">>, <<"1", "x">> }

\* g<commit>: how git describe prints the abbreviated commit id
GPrefixed(c) == <<"g">> \o c

\* <tag>-<distance>-<commit>[-dirty]
Descriptor(tag, distance, commit, dirty) ==
    tag \o <<"-">> \o distance \o <<"-">> \o commit
        \o (IF dirty THEN DirtySuffix ELSE <<>>)

\* what `git describe --dirty --tags --long` prints
ValidDescriptors ==
    { Descriptor(t, IntToStr(d), <<"g">> \o c, dirty) :
        t \in Tags, d \in 0..MaxDistance, c \in Commits, dirty \in BOOLEAN }

Dirtied(text, dirty) == text \o (IF dirty THEN DirtySuffix ELSE <<>>)

\* texts with fewer than three components, a distance that is no number,
\* or a commit without the g prefix
MalformedDescriptors ==
    { Dirtied(<<>>, dirty) : dirty \in BOOLEAN }
    \cup { Dirtied(t, dirty) : t \in Tags, dirty \in BOOLEAN }
    \cup { Dirtied(IntToStr(d) \o <<"-", "g">> \o c, dirty) :
             d \in 0..MaxDistance, c \in Commits, dirty \in BOOLEAN }
    \cup { Descriptor(t, x, <<"g">> \o c, dirty) :
             t \in Tags, x \in BadDistances, c \in Commits, dirty \in BOOLEAN }
    \cup { Descriptor(t, IntToStr(d), c, dirty) :
             t \in Tags, d \in 0..MaxDistance, c \in Commits, dirty \in BOOLEAN }

\* ---------------------------------------------------------------- state

VARIABLES
    describe,   \* the text Git.describe returned
    today,      \* what date() returns: YYYYMMDD
    meta,       \* Git.version's local `meta`
    result,     \* what Git.version returned
    vpc         \* position in Git.version: "describe", "parsed", "returned", "raised"

parseVars == <<describe, today, meta, result, vpc>>

VARIABLES
    fsMarkers,          \* the directories that hold a .git directory
    fsRootParent,       \* the parent of directory 0 (0: the filesystem root)
    envSearchDisabled,  \* is_env_disabled("AUTOBUILD_SCM_SEARCH")
    origin,             \* the start of the outermost _find_repo_dir call
    dir,                \* `start` of the current call
    level,              \* `level` of the current call
    probed,             \* the directories whose .git was looked at, in order
    ret,                \* what _find_repo_dir returned
    fpc                 \* "idle", "call", "returned"

findVars ==
    <<fsMarkers, fsRootParent, envSearchDisabled, origin, dir, level, probed,
      ret, fpc>>

VARIABLES
    hasGit,       \* has_cmd("git")
    client,       \* "none", "absent" (new_client returned None), "constructing", "ready"
    repo_dir,     \* Git.repo_dir
    discoveries,  \* calls of _find_repo_dir made by Git.__init__
    gitRuns,      \* external git invocations (Git._git)
    calls,        \* property accesses so far
    last          \* the last access: property, outcome, value, the query's exit

gitVars == <<hasGit, client, repo_dir, discoveries, gitRuns, calls, last>>

VARIABLES
    args_in,       \* the argument list given to Autobuild.main
    envLoglevel,   \* os.environ AUTOBUILD_LOGLEVEL ("" when unset)
    envAddrsize,   \* os.environ AUTOBUILD_ADDRSIZE ("unset" when unset)
    tool_to_run,   \* "none" for -1, else the name of the imported tool
    usagePrinted,  \* the usage text was printed (alone or within the help)
    toolRuns,      \* calls of a tool's run
    leftBy,        \* how main ended: "", "return 0", "parser.exit", "subparser.exit", an exception
    mpc            \* position in main

mainVars ==
    <<args_in, envLoglevel, envAddrsize, tool_to_run, usagePrinted, toolRuns,
      leftBy, mpc>>

vars == <<parseVars, findVars, gitVars, mainVars>>

\* ------------------------------------------------------- _find_repo_dir

MAX_GIT_SEARCH_DEPTH == 20

\* `return None`
NoDir == -1

Dirs == 0..MaxDir

\* Path.parent: the filesystem root is its own parent
Parent(d) == IF d = 0 THEN fsRootParent ELSE d - 1

\* the search gives up one level early
DepthExceeded_Early(lvl) == lvl >= MAX_GIT_SEARCH_DEPTH - 1

\* the search gives up one level late
DepthExceeded_Late(lvl) == lvl > MAX_GIT_SEARCH_DEPTH

\* line 57: level >= MAX_GIT_SEARCH_DEPTH
DepthExceeded(lvl) == lvl >= MAX_GIT_SEARCH_DEPTH

\* line 59: (start / ".git").is_dir()
HasMarker(d) == d \in fsMarkers

\* the environment is not consulted
SearchDisabled_Ignored == FALSE

\* line 61: is_env_disabled("AUTOBUILD_SCM_SEARCH")
SearchDisabled == envSearchDisabled

FindIdle ==
    /\ fsMarkers = {}
    /\ fsRootParent = 0
    /\ envSearchDisabled = FALSE
    /\ origin = 0
    /\ dir = 0
    /\ level = 0
    /\ probed = <<>>
    /\ ret = NoDir
    /\ fpc = "idle"

\* file systems with at most two markers; a chain to the root, or a loop
FileSystems ==
    /\ fsMarkers \in { {} } \cup { {a, b} : a \in Dirs, b \in Dirs }
    /\ fsRootParent \in {0, LoopTo}

\* _find_repo_dir(start) is called: level = 0
FindCalled(start) ==
    /\ origin = start
    /\ dir = start
    /\ level = 0
    /\ probed = <<>>
    /\ ret = NoDir
    /\ fpc = "call"

\* lines 57-58
FindDepthExceeded ==
    /\ fpc = "call"
    /\ DepthExceeded(level)
    /\ ret' = NoDir
    /\ fpc' = "returned"
    /\ UNCHANGED <<fsMarkers, fsRootParent, envSearchDisabled, origin, dir, level, probed>>
    /\ UNCHANGED <<parseVars, gitVars, mainVars>>

\* lines 59-60
FindMarkerPresent ==
    /\ fpc = "call"
    /\ ~DepthExceeded(level)
    /\ probed' = Append(probed, dir)
    /\ HasMarker(dir)
    /\ ret' = dir
    /\ fpc' = "returned"
    /\ UNCHANGED <<fsMarkers, fsRootParent, envSearchDisabled, origin, dir, level>>
    /\ UNCHANGED <<parseVars, gitVars, mainVars>>

\* lines 61-62
FindSearchDisabled ==
    /\ fpc = "call"
    /\ ~DepthExceeded(level)
    /\ probed' = Append(probed, dir)
    /\ ~HasMarker(dir)
    /\ SearchDisabled
    /\ ret' = NoDir
    /\ fpc' = "returned"
    /\ UNCHANGED <<fsMarkers, fsRootParent, envSearchDisabled, origin, dir, level>>
    /\ UNCHANGED <<parseVars, gitVars, mainVars>>

\* lines 63-64
FindAtRoot ==
    /\ fpc = "call"
    /\ ~DepthExceeded(level)
    /\ probed' = Append(probed, dir)
    /\ ~HasMarker(dir)
    /\ ~SearchDisabled
    /\ Parent(dir) = dir
    /\ ret' = NoDir
    /\ fpc' = "returned"
    /\ UNCHANGED <<fsMarkers, fsRootParent, envSearchDisabled, origin, dir, level>>
    /\ UNCHANGED <<parseVars, gitVars, mainVars>>

\* line 65: the call on the parent, whose return value is returned as it is
FindRecurse ==
    /\ fpc = "call"
    /\ ~DepthExceeded(level)
    /\ probed' = Append(probed, dir)
    /\ ~HasMarker(dir)
    /\ ~SearchDisabled
    /\ Parent(dir) # dir
    /\ dir' = Parent(dir)
    /\ level' = level + 1
    /\ UNCHANGED <<fsMarkers, fsRootParent, envSearchDisabled, origin, ret, fpc>>
    /\ UNCHANGED <<parseVars, gitVars, mainVars>>

\* ------------------------------------------------------------ class Git

NoAccess ==
    [op |-> "none", outcome |-> "none", value |-> <<>>, rc |-> "notrun",
     stdout |-> <<>>]

GitIdle ==
    /\ hasGit = TRUE
    /\ client = "none"
    /\ repo_dir = NoDir
    /\ discoveries = 0
    /\ gitRuns = 0
    /\ calls = 0
    /\ last = NoAccess

\* common.cmd("git", ...): the process ran and printed `stdout`, or it failed:
\* then cmd raises, or hands back the failed process, which printed nothing
CmdOutcomes(texts) ==
    { [rc |-> "ok", raised |-> FALSE, stdout |-> t] : t \in texts }
    \cup { [rc |-> "failed", raised |-> r, stdout |-> <<>>] : r \in BOOLEAN }

\* what `git describe` prints for the handle's repository
DescribeTexts ==
    { Descriptor(<<"1", ".", "2", ".", "3">>, <<"0">>, <<"g", "a">>, FALSE),
      Descriptor(<<"1", ".", "2", ".", "3">>, <<"4">>, <<"g", "a">>, FALSE),
      Descriptor(<<"v", "2">>, <<"0">>, <<"g", "a">>, TRUE),
      Descriptor(<<"1", ".", "2", ".", "3">>, <<"x">>, <<"g", "a">>, FALSE),
      Descriptor(<<"1", ".", "2", ".", "3">>, <<"4">>, <<"a", "b">>, FALSE),
      <<"1", ".", "2", ".", "3">>,
      <<>> }

\* what rev-parse and remote get-url print
PlainTexts == { <<>>, <<"a", "b", "c">> }

\* `if self.repo_dir` / `if not self.repo_dir`
HasRepo == repo_dir # NoDir

\* new_client, lines 132-134: no git command, no client; get_version gives None
NewClientNoGit ==
    /\ client = "none"
    /\ ~hasGit
    /\ client' = "absent"
    /\ last' = [NoAccess EXCEPT !.op = "get_version"]
    /\ UNCHANGED <<hasGit, repo_dir, discoveries, gitRuns, calls>>
    /\ UNCHANGED <<parseVars, findVars, mainVars>>

\* new_client, line 135, and Git.__init__: _find_repo_dir(Path(root)) is called
NewClient ==
    /\ client = "none"
    /\ hasGit
    /\ \E root \in 0..MaxRoot :
        /\ origin' = root
        /\ dir' = root
    /\ level' = 0
    /\ probed' = <<>>
    /\ ret' = NoDir
    /\ fpc' = "call"
    /\ client' = "constructing"
    /\ discoveries' = discoveries + 1
    /\ UNCHANGED <<fsMarkers, fsRootParent, envSearchDisabled>>
    /\ UNCHANGED <<hasGit, repo_dir, gitRuns, calls, last>>
    /\ UNCHANGED <<parseVars, mainVars>>

\* Git.__init__, line 86: the result is stored
InitDone ==
    /\ client = "constructing"
    /\ fpc = "returned"
    /\ repo_dir' = ret
    /\ client' = "ready"
    /\ UNCHANGED <<hasGit, discoveries, gitRuns, calls, last>>
    /\ UNCHANGED <<parseVars, findVars, mainVars>>

\* a property that runs its git command without looking at repo_dir
Access_Unchecked(op) ==
    /\ client = "ready"
    /\ calls < MaxCalls
    /\ calls' = calls + 1
    /\ gitRuns' = gitRuns + 1
    /\ \E q \in CmdOutcomes(PlainTexts) :
         last' = [op |-> op,
                  outcome |-> IF q.raised THEN "error" ELSE "value",
                  value |-> q.stdout, rc |-> q.rc, stdout |-> q.stdout]
    /\ UNCHANGED <<hasGit, client, repo_dir, discoveries>>
    /\ UNCHANGED <<parseVars, findVars, mainVars>>

\* a property that runs one git command and returns its stdout
Access(op) ==
    /\ client = "ready"
    /\ calls < MaxCalls
    /\ calls' = calls + 1
    /\ IF HasRepo
       THEN /\ gitRuns' = gitRuns + 1
            /\ \E q \in CmdOutcomes(PlainTexts) :
                 last' = [op |-> op,
                          outcome |-> IF q.raised THEN "error" ELSE "value",
                          value |-> q.stdout, rc |-> q.rc, stdout |-> q.stdout]
       ELSE /\ gitRuns' = gitRuns
            /\ last' = [NoAccess EXCEPT !.op = op]
    /\ UNCHANGED <<hasGit, client, repo_dir, discoveries>>
    /\ UNCHANGED <<parseVars, findVars, mainVars>>

\* Git.revision
revision == Access("revision")

\* Git.url
url == Access("url")

\* Git.branch
branch == Access("branch")

\* Git.version, lines 116-118
VersionNoRepo ==
    /\ client = "ready"
    /\ calls < MaxCalls
    /\ ~HasRepo
    /\ calls' = calls + 1
    /\ last' = [NoAccess EXCEPT !.op = "version"]
    /\ UNCHANGED <<hasGit, client, repo_dir, discoveries, gitRuns>>
    /\ UNCHANGED <<parseVars, findVars, mainVars>>

\* a version that catches the failure and gives None
VersionQuery_Swallow ==
    /\ client = "ready"
    /\ calls < MaxCalls
    /\ HasRepo
    /\ calls' = calls + 1
    /\ gitRuns' = gitRuns + 1
    /\ \E q \in CmdOutcomes(DescribeTexts) :
        LET m  == parse_describe(q.stdout)
            ok == ~q.raised /\ ~m.error
        IN  last' = [op |-> "version",
                     outcome |-> IF ok THEN "value" ELSE "none",
                     value |-> IF ok THEN FormatVersion(m, today) ELSE <<>>,
                     rc |-> q.rc, stdout |-> q.stdout]
    /\ UNCHANGED <<hasGit, client, repo_dir, discoveries>>
    /\ UNCHANGED <<parseVars, findVars, mainVars>>

\* Git.version, lines 119-128: describe, parse, format; nothing is caught
VersionQuery ==
    /\ client = "ready"
    /\ calls < MaxCalls
    /\ HasRepo
    /\ calls' = calls + 1
    /\ gitRuns' = gitRuns + 1
    /\ \E q \in CmdOutcomes(DescribeTexts) :
        LET m  == parse_describe(q.stdout)
            ok == ~q.raised /\ ~m.error
        IN  last' = [op |-> "version",
                     outcome |-> IF ok THEN "value" ELSE "error",
                     value |-> IF ok THEN FormatVersion(m, today) ELSE <<>>,
                     rc |-> q.rc, stdout |-> q.stdout]
    /\ UNCHANGED <<hasGit, client, repo_dir, discoveries>>
    /\ UNCHANGED <<parseVars, findVars, mainVars>>

\* ------------------------------------------------------- Autobuild.main

\* the arguments: a tool that imports, a name that does not, the options
\* -h, -V, -n (a flag), -p (takes a value), and an option nobody declared
ArgTokens == {"build", "foo", "-h", "-V", "-n", "-p", "-x"}

\* arg.startswith("-")
StartsWithDash(a) == a \in {"-h", "-V", "-n", "-p", "-x"}

\* try_to_import_tool: autobuild.autobuild_tool_<name> imports and has an
\* AutobuildTool
Importable(name) == name = "build"

\* get_default_loglevel_from_environment returns for these, raises otherwise
LoglevelValues == {"", "--quiet", "-q", "--verbose", "-v", "--debug", "-d"}

\* int(os.environ.get("AUTOBUILD_ADDRSIZE", common.DEFAULT_ADDRSIZE))
AddrsizeIsInt(v) == v \in {"unset", "32", "64"}

\* lines 250-256: the first argument that does not start with "-", if any
FirstPlainArg(args) ==
    IF \E i \in 1..Len(args) : ~StartsWithDash(args[i])
    THEN args[CHOOSE i \in 1..Len(args) :
                /\ ~StartsWithDash(args[i])
                /\ \A j \in 1..(i - 1) : StartsWithDash(args[j])]
    ELSE "none"

\* the parser of a registered tool on the arguments after its name: its own
\* -h, the options of argdefs; what it does not know is left over
RECURSIVE ParseSub(_, _, _)
ParseSub(args, i, extras) ==
    IF i > Len(args) THEN (IF extras THEN "error" ELSE "ok")
    ELSE IF args[i] = "-h" THEN "subhelp"
    ELSE IF args[i] = "-n" THEN ParseSub(args, i + 1, extras)
    ELSE IF args[i] = "-p"
    THEN IF i < Len(args) /\ ~StartsWithDash(args[i + 1])
         THEN ParseSub(args, i + 2, extras)
         ELSE "suberror"
    ELSE ParseSub(args, i + 1, TRUE)

\* self.parser.parse_args(args_in): options are taken in order, -h and -V act
\* at once, the first positional selects the sub command and hands it the rest
RECURSIVE ParseTop(_, _, _, _)
ParseTop(args, i, extras, tool) ==
    IF i > Len(args) THEN (IF extras THEN "error" ELSE "ok")
    ELSE IF args[i] = "-h" THEN "help"
    ELSE IF args[i] = "-V" THEN "version"
    ELSE IF args[i] = "-n" THEN ParseTop(args, i + 1, extras, tool)
    ELSE IF args[i] = "-p"
    THEN IF i < Len(args) /\ ~StartsWithDash(args[i + 1])
         THEN ParseTop(args, i + 2, extras, tool)
         ELSE "error"
    ELSE IF args[i] = "-x" THEN ParseTop(args, i + 1, TRUE, tool)
    ELSE IF args[i] = tool THEN ParseSub(args, i + 1, extras)
    ELSE "error"

parse_args(args, tool) == ParseTop(args, 1, FALSE, tool)

MainIdle ==
    /\ args_in = <<>>
    /\ envLoglevel = ""
    /\ envAddrsize = "unset"
    /\ tool_to_run = "none"
    /\ usagePrinted = FALSE
    /\ toolRuns = 0
    /\ leftBy = ""
    /\ mpc = "idle"

\* line 158: the default log level is read
MainLoglevel ==
    /\ mpc = "start"
    /\ envLoglevel \in LoglevelValues
    /\ mpc' = "argdefs"
    /\ UNCHANGED <<args_in, envLoglevel, envAddrsize, tool_to_run, usagePrinted, toolRuns, leftBy>>
    /\ UNCHANGED <<parseVars, findVars, gitVars>>

\* lines 135-138: an invalid AUTOBUILD_LOGLEVEL raises AutobuildError
MainLoglevelRaise ==
    /\ mpc = "start"
    /\ envLoglevel \notin LoglevelValues
    /\ mpc' = "done"
    /\ leftBy' = "AutobuildError"
    /\ UNCHANGED <<args_in, envLoglevel, envAddrsize, tool_to_run, usagePrinted, toolRuns>>
    /\ UNCHANGED <<parseVars, findVars, gitVars>>

\* lines 160-246: the options are declared
MainArgdefs ==
    /\ mpc = "argdefs"
    /\ AddrsizeIsInt(envAddrsize)
    /\ mpc' = "import"
    /\ UNCHANGED <<args_in, envLoglevel, envAddrsize, tool_to_run, usagePrinted, toolRuns, leftBy>>
    /\ UNCHANGED <<parseVars, findVars, gitVars>>

\* lines 236-238: int() of an AUTOBUILD_ADDRSIZE that is no number raises
MainArgdefsRaise ==
    /\ mpc = "argdefs"
    /\ ~AddrsizeIsInt(envAddrsize)
    /\ mpc' = "done"
    /\ leftBy' = "ValueError"
    /\ UNCHANGED <<args_in, envLoglevel, envAddrsize, tool_to_run, usagePrinted, toolRuns>>
    /\ UNCHANGED <<parseVars, findVars, gitVars>>

\* lines 248-256: the first plain argument is tried as a tool, and only it
MainImportTool ==
    /\ mpc = "import"
    /\ tool_to_run' =
         IF Importable(FirstPlainArg(args_in)) THEN FirstPlainArg(args_in) ELSE "none"
    /\ mpc' = "parse"
    /\ UNCHANGED <<args_in, envLoglevel, envAddrsize, usagePrinted, toolRuns, leftBy>>
    /\ UNCHANGED <<parseVars, findVars, gitVars>>

\* lines 258-269: the arguments parse; log level and platform are set
MainParsed ==
    /\ mpc = "parse"
    /\ parse_args(args_in, tool_to_run) = "ok"
    /\ mpc' = "dispatch"
    /\ UNCHANGED <<args_in, envLoglevel, envAddrsize, tool_to_run, usagePrinted, toolRuns, leftBy>>
    /\ UNCHANGED <<parseVars, findVars, gitVars>>

\* line 258: the parser leaves: an error (usage, exit 2), RunHelp (help,
\* exit 0), Version (version, exit), or the same in the tool's parser
MainParseExit ==
    /\ mpc = "parse"
    /\ parse_args(args_in, tool_to_run) # "ok"
    /\ usagePrinted' = (parse_args(args_in, tool_to_run) # "version")
    /\ leftBy' = IF parse_args(args_in, tool_to_run) \in {"subhelp", "suberror"}
                 THEN "subparser.exit" ELSE "parser.exit"
    /\ mpc' = "done"
    /\ UNCHANGED <<args_in, envLoglevel, envAddrsize, tool_to_run, toolRuns>>
    /\ UNCHANGED <<parseVars, findVars, gitVars>>

\* lines 271-272 and 277
MainRunTool ==
    /\ mpc = "dispatch"
    /\ tool_to_run # "none"
    /\ toolRuns' = toolRuns + 1
    /\ leftBy' = "return 0"
    /\ mpc' = "done"
    /\ UNCHANGED <<args_in, envLoglevel, envAddrsize, tool_to_run, usagePrinted>>
    /\ UNCHANGED <<parseVars, findVars, gitVars>>

\* the help is printed and main goes on to `return 0`
MainNoCommand_Returns ==
    /\ mpc = "dispatch"
    /\ tool_to_run = "none"
    /\ usagePrinted' = TRUE
    /\ leftBy' = "return 0"
    /\ mpc' = "done"
    /\ UNCHANGED <<args_in, envLoglevel, envAddrsize, tool_to_run, toolRuns>>
    /\ UNCHANGED <<parseVars, findVars, gitVars>>

\* lines 273-275: print_help, then parser.error("no command specified")
MainNoCommand ==
    /\ mpc = "dispatch"
    /\ tool_to_run = "none"
    /\ usagePrinted' = TRUE
    /\ leftBy' = "parser.exit"
    /\ mpc' = "done"
    /\ UNCHANGED <<args_in, envLoglevel, envAddrsize, tool_to_run, toolRuns>>
    /\ UNCHANGED <<parseVars, findVars, gitVars>>

\* -------------------------------------------- Git.version on a given text

ParseIdle ==
    /\ describe = <<>>
    /\ today \in Dates
    /\ meta = NoMeta
    /\ result = <<>>
    /\ vpc = "idle"

InitParse ==
    /\ MainIdle
    /\ FindIdle
    /\ GitIdle
    /\ describe \in ValidDescriptors \cup MalformedDescriptors
    /\ today \in Dates
    /\ meta = NoMeta
    /\ result = <<>>
    /\ vpc = "describe"

\* line 119: meta = _parse_describe(self.describe()), returned
ParseOk ==
    /\ vpc = "describe"
    /\ ~parse_describe(describe).error
    /\ meta' = parse_describe(describe)
    /\ vpc' = "parsed"
    /\ UNCHANGED <<describe, today, result, findVars, gitVars, mainVars>>

\* line 119: _parse_describe raised, and Git.version with it
ParseRaise ==
    /\ vpc = "describe"
    /\ parse_describe(describe).error
    /\ vpc' = "raised"
    /\ UNCHANGED <<describe, today, meta, result, findVars, gitVars, mainVars>>

\* lines 120-128
Format ==
    /\ vpc = "parsed"
    /\ result' = FormatVersion(meta, today)
    /\ vpc' = "returned"
    /\ UNCHANGED <<describe, today, meta, findVars, gitVars, mainVars>>

NextParse == ParseOk \/ ParseRaise \/ Format

SpecParse == InitParse /\ [][NextParse]_vars

\* ------------------------------------------------- claims on Git.version

\* {next} as the versioning scheme states it: the patch plus one, no label
SchemeNext(v) ==
    IF v.semver
    THEN IntToStr(v.major) \o <<".">> \o IntToStr(v.minor) \o <<".">>
         \o IntToStr(v.patch + 1)
    ELSE v.raw

SchemeDev(m) ==
    <<"-", "d", "e", "v">> \o IntToStr(m.distance) \o <<".", "g">> \o m.commit

\* C1: a returned version has one of three shapes: dirty (any distance)
\* {next}-dev{distance}.g{commit}.d{date}; clean with distance > 0
\* {next}-dev{distance}.g{commit}; clean with distance 0 the tag version with
\* no suffix. {next} is the patch bump of a semantic version and the raw
\* string itself otherwise.
C1_ThreeShapes ==
    vpc = "returned" =>
        /\ meta.dirty =>
             result = SchemeNext(meta.version) \o SchemeDev(meta) \o <<".", "d">> \o today
        /\ (~meta.dirty /\ meta.distance > 0) =>
             result = SchemeNext(meta.version) \o SchemeDev(meta)
        /\ (~meta.dirty /\ meta.distance = 0) =>
             result = VersionStr(meta.version)

C1_Witness ==
    /\ vpc = "returned"
    /\ meta.dirty
    /\ meta.distance = 0
    /\ meta.version.semver

\* s is t without its leading "v" characters
IsLeadingVRemoved(t, s) ==
    \E k \in 0..Len(t) :
        /\ \A i \in 1..k : t[i] = "v"
        /\ k < Len(t) => t[k + 1] # "v"
        /\ s = SubSeq(t, k + 1, Len(t))

CleanOnTag(t, c) == Descriptor(t, <<"0">>, GPrefixed(c), FALSE)

\* C2 (as stated): for <tag>-0-g<commit> without -dirty the version returned is
\* the <tag> text unchanged
C2_TagUnchanged ==
    \A t \in Tags, c \in Commits :
        (vpc = "returned" /\ describe = CleanOnTag(t, c)) => result = t

\* C2 (amended): for <tag>-0-g<commit> without -dirty the version returned is
\* the <tag> text less its leading "v" characters, with no patch bump and no
\* suffix
C2_TagLessLeadingV ==
    \A t \in Tags, c \in Commits :
        (vpc = "returned" /\ describe = CleanOnTag(t, c)) =>
            IsLeadingVRemoved(t, result)

C2_Witness ==
    \E t \in Tags, c \in Commits :
        /\ vpc = "returned"
        /\ describe = CleanOnTag(t, c)
        /\ t[1] = "v"
        /\ result = Tail(t)

\* C3: parsing <tag>-<distance>-g<commit>[-dirty] yields the flag, the
\* distance, the commit id and the version of the whole <tag>
C3_FieldsOfWholeTag ==
    \A t \in Tags, d \in 0..MaxDistance, c \in Commits, dirty \in BOOLEAN :
        (vpc # "describe" /\ describe = Descriptor(t, IntToStr(d), GPrefixed(c), dirty)) =>
            /\ vpc # "raised"
            /\ meta.dirty = dirty
            /\ meta.distance = d
            /\ meta.commit = c
            /\ meta.version = TagVersion(t)

\* the -dirty suffix aside: fewer than three components, a distance that is
\* no number, or a last component that does not start with g
IsMalformed(text) ==
    LET parts == Split(StripDirty(text), "-")
        n     == Len(parts)
    IN  \/ n < 3
        \/ ~IsNumeric(parts[n - 1])
        \/ Len(parts[n]) = 0
        \/ parts[n][1] # "g"

\* C4: a malformed descriptor makes _parse_describe raise, and Git.version
\* with it; no GitMeta and no version string comes back
C4_MalformedRaises ==
    (vpc # "describe" /\ IsMalformed(describe)) => vpc = "raised"

\* --------------------------------------- _find_repo_dir on a given start

InitFind ==
    /\ MainIdle
    /\ ParseIdle
    /\ GitIdle
    /\ FileSystems
    /\ envSearchDisabled \in BOOLEAN
    /\ \E start \in Dirs : FindCalled(start)

NextFind ==
    \/ FindDepthExceeded
    \/ FindMarkerPresent
    \/ FindSearchDisabled
    \/ FindAtRoot
    \/ FindRecurse

SpecFind == InitFind /\ [][NextFind]_vars

\* ------------------------------------------------- the life of a Git handle

Init ==
    /\ MainIdle
    /\ ParseIdle
    /\ fsMarkers \in SUBSET (0..MaxRoot)
    /\ fsRootParent \in {0, LoopTo}
    /\ envSearchDisabled \in BOOLEAN
    /\ origin = 0
    /\ dir = 0
    /\ level = 0
    /\ probed = <<>>
    /\ ret = NoDir
    /\ fpc = "idle"
    /\ hasGit \in BOOLEAN
    /\ client = "none"
    /\ repo_dir = NoDir
    /\ discoveries = 0
    /\ gitRuns = 0
    /\ calls = 0
    /\ last = NoAccess

Next ==
    \/ NewClientNoGit
    \/ NewClient
    \/ FindDepthExceeded
    \/ FindMarkerPresent
    \/ FindSearchDisabled
    \/ FindAtRoot
    \/ FindRecurse
    \/ InitDone
    \/ revision
    \/ url
    \/ branch
    \/ VersionNoRepo
    \/ VersionQuery

Spec == Init /\ [][Next]_vars

\* ------------------------------------------------ one call of Autobuild.main

ArgLists == UNION { [1..n -> ArgTokens] : n \in 0..MaxArgs }

InitMain ==
    /\ ParseIdle
    /\ FindIdle
    /\ GitIdle
    /\ args_in \in ArgLists
    /\ envLoglevel \in {"", "--debug", "bogus"}
    /\ envAddrsize \in {"unset", "64", "bogus"}
    /\ tool_to_run = "none"
    /\ usagePrinted = FALSE
    /\ toolRuns = 0
    /\ leftBy = ""
    /\ mpc = "start"

NextMain ==
    \/ MainLoglevel
    \/ MainLoglevelRaise
    \/ MainArgdefs
    \/ MainArgdefsRaise
    \/ MainImportTool
    \/ MainParsed
    \/ MainParseExit
    \/ MainRunTool
    \/ MainNoCommand

SpecMain == InitMain /\ [][NextMain]_vars

\* ------------------------------------------------ claims on _find_repo_dir

\* the start and its ancestors: n directories, nearest first
RECURSIVE PathFrom(_, _)
PathFrom(d, n) ==
    IF n = 0 THEN <<>> ELSE <<d>> \o PathFrom(Parent(d), n - 1)

\* C5: with upward search enabled, when the nearest directory with the marker
\* is at level 0..MAX_GIT_SEARCH_DEPTH-1 above the start, that directory is
\* returned; when no directory from the start to the root has the marker, the
\* result is `not found`
C5_NearestMarker ==
    (fpc = "returned" /\ ~envSearchDisabled) =>
        LET near == PathFrom(origin, MAX_GIT_SEARCH_DEPTH)
            all  == PathFrom(origin, MaxDir + LoopTo + 1)
        IN  /\ \A k \in 1..Len(near) :
                (/\ near[k] \in fsMarkers
                 /\ \A j \in 1..(k - 1) : near[j] \notin fsMarkers) => ret = near[k]
            /\ (\A k \in 1..Len(all) : all[k] \notin fsMarkers) => ret = NoDir

C5_Witness ==
    /\ fpc = "returned"
    /\ ~envSearchDisabled
    /\ level = MAX_GIT_SEARCH_DEPTH - 1
    /\ ret # NoDir
    /\ ret # origin
    /\ Cardinality(fsMarkers) = 2

\* C6: a search never looks at more than MAX_GIT_SEARCH_DEPTH directories,
\* every call that has not returned can take its next step and that step
\* raises the level, which never passes MAX_GIT_SEARCH_DEPTH; with no marker
\* within the first MAX_GIT_SEARCH_DEPTH levels the result is `not found`
C6_BoundedSearch ==
    /\ level <= MAX_GIT_SEARCH_DEPTH
    /\ Len(probed) <= MAX_GIT_SEARCH_DEPTH
    /\ fpc = "call" => Len(probed) = level
    /\ fpc = "call" => ENABLED NextFind
    /\ fpc = "returned" =>
         LET near == PathFrom(origin, MAX_GIT_SEARCH_DEPTH)
         IN  (\A k \in 1..Len(near) : near[k] \notin fsMarkers) => ret = NoDir

C6_Witness ==
    /\ fpc = "returned"
    /\ ret = NoDir
    /\ Len(probed) = MAX_GIT_SEARCH_DEPTH
    /\ fsRootParent = 0
    /\ origin - MAX_GIT_SEARCH_DEPTH \in fsMarkers

\* C7: with upward search disabled only the start directory is looked at; it
\* is returned when it holds the marker, and the result is `not found` when it
\* does not, whatever its ancestors hold
C7_SearchDisabled ==
    envSearchDisabled =>
        /\ \A i \in 1..Len(probed) : probed[i] = origin
        /\ fpc = "returned" =>
             ret = IF origin \in fsMarkers THEN origin ELSE NoDir

C7_Witness ==
    /\ fpc = "returned"
    /\ envSearchDisabled
    /\ origin \notin fsMarkers
    /\ origin > 0
    /\ origin - 1 \in fsMarkers
    /\ ret = NoDir

\* ------------------------------------------------- claims on the Git handle

\* C8: on a handle whose construction found no repository, every access to
\* version, revision, url and branch gives None, raises nothing and runs no
\* git command; the search is not run again and repo_dir stays `not found`
C8_NoRepoHandle ==
    (client = "ready" /\ ret = NoDir) =>
        /\ repo_dir = NoDir
        /\ discoveries = 1
        /\ gitRuns = 0
        /\ last.outcome = "none"
        /\ last.rc = "notrun"

C8_Witness ==
    /\ client = "ready"
    /\ repo_dir = NoDir
    /\ calls = MaxCalls
    /\ last.op = "url"

\* the -dirty suffix aside: fewer than three components, or a distance that
\* is no number (the empty text included)
LacksFields(text) ==
    LET parts == Split(StripDirty(text), "-")
        n     == Len(parts)
    IN  n < 3 \/ ~IsNumeric(parts[n - 1])

\* C9: on a handle with a repository, a descriptor query that fails (git exits
\* non-zero, or prints no text with a distance and a commit field) makes
\* version raise; version gives None exactly when there is no repository, and
\* otherwise a non-empty version string or an error
C9_QueryFailureRaises ==
    /\ (client = "ready" /\ last.op = "version") =>
         /\ (last.outcome = "none") <=> (repo_dir = NoDir)
         /\ (repo_dir # NoDir /\ (last.rc = "failed" \/ LacksFields(last.stdout))) =>
              last.outcome = "error"
         /\ last.outcome = "value" => Len(last.value) > 0
         /\ last.outcome = "error" => Len(last.value) = 0
    /\ client = "absent" => last.outcome = "none"

C9_Witness ==
    /\ client = "ready"
    /\ repo_dir # NoDir
    /\ last.op = "version"
    /\ last.rc = "failed"
    /\ last.outcome = "error"

\* ------------------------------------------------ claims on Autobuild.main

\* the list names no importable tool and asks for neither help nor version
NoToolNoHelp(args) ==
    /\ \A i \in 1..Len(args) :
         (/\ ~StartsWithDash(args[i])
          /\ \A j \in 1..(i - 1) : StartsWithDash(args[j])) => args[i] # "build"
    /\ \A i \in 1..Len(args) : args[i] \notin {"-h", "-V"}

\* main has printed the usage and left through the parser's exit
UsageAndExit ==
    /\ usagePrinted
    /\ leftBy = "parser.exit"

====
